---- MODULE Spec2Model ----
(***************************************************************************)
(* Model of the OpenLDBSVWS service-details parser.                        *)
(*                                                                         *)
(* Two iterations of the parser live in the repository and both are        *)
(* modelled, each from its own source:                                     *)
(*   - services.rs / parsable.rs: ServiceDetails::try_from and             *)
(*     ServiceLocation::parse, built on the child!/text!/time!/date!/      *)
(*     bool!/parse! macros;                                                *)
(*   - lib.rs: parse_service_details, parse_service_location and           *)
(*     parse_association, built on the field_* methods.                    *)
(*                                                                         *)
(* An XML element is a record with one entry per child tag the parser      *)
(* looks up (the first child with that tag).  A text child is              *)
(*   [present, empty, text]: present = a child with that tag exists,       *)
(*   empty = its first child is missing or is not a text node, text = the  *)
(*   direct text (the empty text when empty).                              *)
(* A container child (locations, associations, adhocAlerts) is             *)
(*   [present, kids]: kids = the ordered direct child nodes.               *)
(* The activities text is a sequence of characters, so that the byte       *)
(* chunking of the decoder can be modelled; other texts are strings.       *)
(***************************************************************************)
EXTENDS Integers, Sequences, FiniteSets, TLC

(***************************************************************************)
(* Results, options and errors.                                            *)
(***************************************************************************)
Ok(v) == [kind |-> "ok", val |-> v]
Err(e) == [kind |-> "err", err |-> e]
\* an unwinding panic (unwrap() on Err, todo!()): neither Ok nor Err
Panic(why) == [kind |-> "panic", why |-> why]

None == [some |-> FALSE]
Some(v) == [some |-> TRUE, v |-> v]

\* Result::ok(): Ok(v) -> Some(v), Err(_) -> None
ok(r) == IF r.kind = "ok" THEN Some(r.val) ELSE None

\* parsable.rs ParsingError (the variant set used by services.rs)
MissingField(f) == [tag |-> "MissingField", field |-> f]
InvalidField(f, exp, found) ==
    [tag |-> "InvalidField", field |-> f, expected |-> exp, found |-> found]
InvalidTagName(exp) == [tag |-> "InvalidTagName", expected |-> exp]
InvalidActivity(x) == [tag |-> "InvalidActivity", found |-> x]
InvalidForecast(x) == [tag |-> "InvalidForecast", found |-> x]
InvalidAssociationCategory(x) == [tag |-> "InvalidAssociationCategory", found |-> x]
UnsupportedServiceType(x) == [tag |-> "UnsupportedServiceType", found |-> x]
XMLParseError == [tag |-> "XMLParseError"]

\* lib.rs ParsingError::InvalidTagName { expected, found }
InvalidTagNameFound(exp, found) ==
    [tag |-> "InvalidTagName", expected |-> exp, found |-> found]

\* The first result, in evaluation order, that is not Ok; the fields of a
\* struct literal are evaluated in source order and `?` returns at the first
\* Err, a panic unwinds at the point it happens.
Min(S) == CHOOSE i \in S : \A j \in S : i <= j
Failures(rs) == {i \in DOMAIN rs : rs[i].kind # "ok"}
FirstFailure(rs) == rs[Min(Failures(rs))]

\* `r?` (services.rs 545 and every field ending in `?`): the value of an Ok
\* goes on to the rest of the function, anything else is what the function
\* returns
Try(r, rest(_)) == IF r.kind # "ok" THEN r ELSE rest(r.val)

\* a struct literal (services.rs 291-456, 551-575) or a loop of pushes: rs
\* are its fallible parts in source order, make builds the value once every
\* one of them is Ok
Literal(rs, make(_)) ==
    IF Failures(rs) # {} THEN FirstFailure(rs) ELSE make([i \in DOMAIN rs |-> rs[i].val])

\* match r { Ok(v) => on_ok(v), Err(_) => on_err } (services.rs 376-385)
match_result(r, on_ok(_), on_err) == IF r.kind = "ok" THEN on_ok(r.val) ELSE on_err

\* Result::map_err(|_| e)
map_err(r, e) == IF r.kind = "ok" THEN r ELSE Err(e)

\* Result::unwrap_or(d)
unwrap_or(r, d) == IF r.kind = "ok" THEN r.val ELSE d

\* "true" => Ok(true), "false" => Ok(false), _ => Err(InvalidField { .. })
match_bool(f, x) ==
    CASE x = "true" -> Ok(TRUE)
      [] x = "false" -> Ok(FALSE)
      [] OTHER -> Err(InvalidField(f, "bool", x))

(***************************************************************************)
(* Text conversions (chrono, core::str::parse), by table.                  *)
(***************************************************************************)
\* DateTime::parse_from_rfc3339: the instant, in minutes from 2022-05-01T00:00Z
Rfc3339 ==
    [t \in {"2022-05-01T10:00:00Z", "2022-05-01T11:00:00+01:00",
            "2022-05-01T10:05:00Z", "2022-05-01T10:07:00Z",
            "2022-05-01T10:10:00Z", "2022-05-01T10:12:00Z"} |->
        CASE t = "2022-05-01T10:00:00Z" -> 600
          [] t = "2022-05-01T11:00:00+01:00" -> 600
          [] t = "2022-05-01T10:05:00Z" -> 605
          [] t = "2022-05-01T10:07:00Z" -> 607
          [] t = "2022-05-01T10:10:00Z" -> 610
          [] t = "2022-05-01T10:12:00Z" -> 612]
parse_from_rfc3339(t) == IF t \in DOMAIN Rfc3339 THEN Ok(Rfc3339[t]) ELSE Err("ParseError")

\* NaiveDate::parse_from_str(text, "%Y-%m-%d"): the day number in 2022
NaiveDates ==
    [t \in {"2022-05-01", "2022-05-02"} |-> IF t = "2022-05-01" THEN 121 ELSE 122]
parse_from_str(t) == IF t \in DOMAIN NaiveDates THEN Ok(NaiveDates[t]) ELSE Err("ParseError")

\* str::parse::<uN>(): decimal numerals; out of range or non-numeric text fails
Decimal ==
    [t \in {"0", "4", "8", "12", "255", "256", "65535", "65536"} |->
        CASE t = "0" -> 0 [] t = "4" -> 4 [] t = "8" -> 8 [] t = "12" -> 12
          [] t = "255" -> 255 [] t = "256" -> 256
          [] t = "65535" -> 65535 [] t = "65536" -> 65536]
parse_uint(t, bits) ==
    IF t \in DOMAIN Decimal /\ Decimal[t] < 2^bits THEN Ok(Decimal[t]) ELSE Err("ParseIntError")

(***************************************************************************)
(* parsable.rs: the extraction macros used by services.rs.                 *)
(***************************************************************************)
\* a child! that hands over the container without looking whether it is there
child_or_empty(x, y) == Ok(x[y])

\* child!(x, y)
child(x, y) == IF x[y].present THEN Ok(x[y]) ELSE Err(MissingField(y))

\* name!(x)
name(x) == x.tag

\* a text! that reads a missing child as the empty text
text_or_empty(x, y) == Ok(x[y].text)

\* text!(t, x, y): a present child with no leading text node gives ""
text(x, y) == IF x[y].present THEN Ok(x[y].text) ELSE Err(MissingField(y))

\* time!(t, x, y)
time(x, y) ==
    Try(text(x, y), LAMBDA v : map_err(parse_from_rfc3339(v), InvalidField(y, "DateTime", v)))

\* date!(t, x, y)
date(x, y) ==
    Try(text(x, y), LAMBDA v : map_err(parse_from_str(v), InvalidField(y, "NaiveDate", v)))

\* a bool! without the default for a missing child
bool_no_default(x, y, z) ==
    IF ~x[y].present THEN Err(MissingField(y))
    ELSE IF x[y].empty THEN Ok(z) ELSE match_bool(y, x[y].text)

\* bool!(t, x, y, z): the empty text and a missing child give the default
bool(x, y, z) ==
    match_result(text(x, y), LAMBDA v : IF v = "" THEN Ok(z) ELSE match_bool(y, v), Ok(z))

\* parse!(t, x, y, uN): text!(..).unwrap_or("").parse::<uN>()
parse(x, y, bits) == parse_uint(unwrap_or(text(x, y), ""), bits)

(***************************************************************************)
(* lib.rs: the field_* methods of Traversable for Node.                    *)
(***************************************************************************)
\* field_text: Node::text() is None for an element without a leading text node
field_text(node, f) ==
    IF ~node[f].present THEN Err(MissingField(f))
    ELSE IF node[f].empty THEN Err(InvalidField(f, "text", "<None>"))
    ELSE Ok(node[f].text)

\* field::<uN>
field(node, f, bits) ==
    Try(field_text(node, f),
        LAMBDA v : map_err(parse_uint(v, bits),
                           InvalidField(f, IF bits = 16 THEN "u16" ELSE "u8", v)))

field_time(node, f) ==
    Try(field_text(node, f),
        LAMBDA v : map_err(parse_from_rfc3339(v), InvalidField(f, "DateTime", v)))

field_date(node, f) ==
    Try(field_text(node, f),
        LAMBDA v : map_err(parse_from_str(v), InvalidField(f, "NaiveDate", v)))

field_bool(node, f, default) ==
    match_result(field_text(node, f), LAMBDA v : match_bool(f, v), Ok(default))

(***************************************************************************)
(* The activity decoder (services.rs 314-374, lib.rs 463-520).             *)
(***************************************************************************)
\* A non-ASCII character of the activities text takes two bytes in UTF-8.
Lead == "<C3>"
Cont == "<A9>"
NonAscii == "U+00E9"
MultiByte == {NonAscii}
Whitespace == {" "}

\* str::as_bytes
RECURSIVE as_bytes(_)
as_bytes(s) ==
    IF s = <<>> THEN <<>>
    ELSE (IF s[1] \in MultiByte THEN <<Lead, Cont>> ELSE <<s[1]>>) \o as_bytes(Tail(s))

\* slice::chunks(n): consecutive chunks of n bytes, the last may be shorter
RECURSIVE chunks(_, _)
chunks(b, n) ==
    IF b = <<>> THEN <<>>
    ELSE IF Len(b) <= n THEN <<b>>
    ELSE <<SubSeq(b, 1, n)>> \o chunks(SubSeq(b, n + 1, Len(b)), n)

\* core::str::from_utf8: Err when a chunk holds half of a two-byte character
RECURSIVE from_utf8(_)
from_utf8(b) ==
    IF b = <<>> THEN Ok(<<>>)
    ELSE IF b[1] = Cont THEN Err("Utf8Error")
    ELSE IF b[1] = Lead
         THEN IF Len(b) >= 2 /\ b[2] = Cont
              THEN LET r == from_utf8(SubSeq(b, 3, Len(b))) IN
                   IF r.kind = "ok" THEN Ok(<<NonAscii>> \o r.val) ELSE r
              ELSE Err("Utf8Error")
         ELSE LET r == from_utf8(Tail(b)) IN
              IF r.kind = "ok" THEN Ok(<<b[1]>> \o r.val) ELSE r

\* str::trim
RECURSIVE trim_start(_)
trim_start(s) == IF s # <<>> /\ s[1] \in Whitespace THEN trim_start(Tail(s)) ELSE s
RECURSIVE trim_end(_)
trim_end(s) ==
    IF s # <<>> /\ s[Len(s)] \in Whitespace THEN trim_end(SubSeq(s, 1, Len(s) - 1)) ELSE s
\* a trim that strips leading whitespace only
trim_start_only(s) == trim_start(s)
trim(s) == trim_end(trim_start(s))

\* the characters of a str as one string, to match it against the code table
RECURSIVE Str(_)
Str(s) == IF s = <<>> THEN "" ELSE s[1] \o Str(Tail(s))

\* services.rs: the arms of `match activity.trim()`, in source order
ActivityTable ==
    << <<"-D", "StopDetach">>, <<"-T", "StopAttachDetach">>, <<"-U", "StopAttach">>,
       <<"A", "StopOrShuntForPass">>, <<"AE", "AttachOrDetachAssistingLocomotive">>,
       <<"AX", "ShowsAsXOnArrival">>, <<"BL", "StopsForBankingLocomotive">>,
       <<"C", "StopsToChangeCrew">>, <<"D", "StopsToSetDownPassengers">>,
       <<"E", "StopsForExamination">>, <<"G", "GBPRTTDataToAdd">>,
       <<"H", "Notional">>, <<"HH", "NotionalActivityThirdColumn">>,
       <<"K", "PassengerCountPoint">>, <<"KC", "TicketCollectionAndExaminationPoint">>,
       <<"KE", "TicketExaminationPoint">>, <<"KF", "TicketExaminationPointFirstClass">>,
       <<"KS", "SelectiveTicketExaminationPoint">>, <<"L", "StopsToChangeLocomotive">>,
       <<"N", "StopNotAdvertised">>, <<"OP", "StopsForOtherReasons">>,
       <<"OR", "TrainLocomotiveOnRear">>, <<"PR", "PropellingBetweenPointsShown">>,
       <<"R", "StopsWhenRequired">>, <<"RM", "StopsForReversingMove">>,
       <<"RR", "StopsForLocomotiveToRunRoundTrain">>, <<"S", "StopsForRailwayPersonnel">>,
       <<"T", "StopsToTakeUpAndSetDownPassengers">>, <<"TB", "TrainBegins">>,
       <<"TF", "TrainFinishes">>, <<"TS", "RequestedForTOPS">>,
       <<"TW", "StopsOrPassesForTabletOrStaffOrToken">>, <<"U", "StopsToTakeUpPassengers">>,
       <<"W", "StopsForWateringOfCoaches">>, <<"X", "PassesAnotherTrain">>,
       <<"", "None">> >>

\* lib.rs: the same arms; two variants carry another name in that iteration
lib_ActivityTable ==
    [i \in DOMAIN ActivityTable |->
        CASE ActivityTable[i][1] = "H" -> <<"H", "NotionalActivity">>
          [] ActivityTable[i][1] = "TS" -> <<"TS", "ActivityRequestedForTOPS">>
          [] OTHER -> ActivityTable[i]]

\* match x { code => variant, ..., x => return Err(InvalidActivity(x)) }
match_activity(table, x) ==
    LET arms == {i \in DOMAIN table : table[i][1] = x} IN
    IF arms = {} THEN Err(InvalidActivity(x)) ELSE Ok(table[Min(arms)][2])

\* a closure that compares both elements: |a, b| *a == None && *b == None
same_bucket_both(a, b) == a = "None" /\ b = "None"

\* the closure handed to dedup_by: |a, _| *a == Activity::None
same_bucket(a, b) == a = "None"

\* Vec::dedup_by: element `read` is dropped when same_bucket(it, last kept)
RECURSIVE dedup_from(_, _, _)
dedup_from(v, read, kept) ==
    IF read > Len(v) THEN kept
    ELSE IF same_bucket(v[read], kept[Len(kept)])
         THEN dedup_from(v, read + 1, kept)
         ELSE dedup_from(v, read + 1, Append(kept, v[read]))
dedup_by(v) == IF Len(v) <= 1 THEN v ELSE dedup_from(v, 2, <<v[1]>>)

\* the chunks of the text as strs: .chunks(2).map(|x| from_utf8(x).unwrap())
\* .collect(); every chunk is converted before the first one is matched
collect_chunks(activities) ==
    LET cs == chunks(as_bytes(activities), 2)
        strs == [i \in DOMAIN cs |-> from_utf8(cs[i])] IN
    IF \E i \in DOMAIN strs : strs[i].kind # "ok"
    THEN Panic("from_utf8(x).unwrap()")
    ELSE Ok([i \in DOMAIN strs |-> strs[i].val])

\* the body of the `activities => Some({ ... })` arm
decode_activities(table, activities) ==
    Try(collect_chunks(activities),
        LAMBDA cs : Literal([i \in DOMAIN cs |-> match_activity(table, Str(trim(cs[i])))],
                            LAMBDA ret : Ok(Some(dedup_by(ret)))))

\* activities read without the `?`: a missing child counts as the empty text
ServiceLocation_activities_optional(location) ==
    IF ~location["activities"].present \/ location["activities"].text = <<>> THEN Ok(None)
    ELSE decode_activities(ActivityTable, location["activities"].text)

\* services.rs: activities: match text!(string, location, "activities")? { .. }
ServiceLocation_activities(location) ==
    Try(text(location, "activities"),
        LAMBDA activities : IF activities = <<>> THEN Ok(None)
                            ELSE decode_activities(ActivityTable, activities))

\* lib.rs: activities: match &*(location.field_text("activities")?) { .. }
lib_activities(location) ==
    Try(field_text(location, "activities"),
        LAMBDA activities : IF activities = <<>> THEN Ok(None)
                            ELSE decode_activities(lib_ActivityTable, activities))

(***************************************************************************)
(* traversable.rs: Traversable for Node, used by associations.rs.          *)
(***************************************************************************)
\* Traversable::child
Traversable_child(node, f) == IF node[f].present THEN Ok(node[f]) ELSE Err(MissingField(f))

\* Traversable::get_text on the child found under tag f
get_text(c, f) == IF c.empty THEN Err(InvalidField(f, "text", "<None>")) ELSE Ok(c.text)

\* Traversable::get_date
get_date(c, f) ==
    Try(get_text(c, f), LAMBDA v : map_err(parse_from_str(v), InvalidField(f, "NaiveDate", v)))

\* Traversable::get_bool
get_bool(c, f, default) ==
    match_result(get_text(c, f), LAMBDA v : match_bool(f, v), Ok(default))

\* a lookup that reads a missing child as the empty text
child_text_or_empty(node, f) == Ok(node[f].text)

\* Traversable::text(&node.child(f)?): the child lookup, then its text
child_text(node, f) == Try(Traversable_child(node, f), LAMBDA c : get_text(c, f))

(***************************************************************************)
(* associations.rs: Association::parse.                                    *)
(***************************************************************************)
Association_category(x) ==
    CASE x = "divide" -> Ok("Divide")
      [] x = "join" -> Ok("Join")
      [] x = "next" -> Ok("Next")
      [] OTHER -> Err(InvalidAssociationCategory(x))

\* `Traversable::text(&association.child(f)?).ok()`: the `?` is on the child
\* lookup, so a missing child is an error and only a missing text is None
child_text_ok(node, f) == Try(Traversable_child(node, f), LAMBDA c : Ok(ok(get_text(c, f))))

\* `cancelled: association.child("cancelled")?.bool(false)` has no `?` after
\* bool: the `?` is on the child lookup and the flag itself cannot fail
Association_parse(association) ==
    IF name(association) # "association" THEN Err(InvalidTagName("association"))
    ELSE Literal(
        << Try(child_text(association, "category"), Association_category),
           child_text(association, "rid"),
           child_text(association, "uid"),
           child_text(association, "trainid"),
           child_text_ok(association, "rsid"),
           Try(Traversable_child(association, "sdd"), LAMBDA c : get_date(c, "sdd")),
           child_text(association, "origin"),
           child_text_ok(association, "originCRS"),
           child_text_ok(association, "originTiploc"),
           child_text(association, "destination"),
           child_text_ok(association, "destCRS"),
           child_text_ok(association, "destTiploc"),
           Try(Traversable_child(association, "cancelled"),
               LAMBDA c : Ok(ok(get_bool(c, "cancelled", FALSE)) = Some(TRUE))) >>,
        LAMBDA v :
            Ok([category |-> v[1], rid |-> v[2], uid |-> v[3], trainid |-> v[4],
                rsid |-> v[5], sdd |-> v[6],
                origin |-> Some([name |-> v[7], crs |-> v[8], tiploc |-> v[9]]),
                destination |-> Some([name |-> v[10], crs |-> v[11], tiploc |-> v[12]]),
                cancelled |-> v[13]]))

(***************************************************************************)
(* lib.rs: parse_association.                                              *)
(***************************************************************************)
lib_category(x) ==
    CASE x = "divide" -> Ok("Divide")
      [] x = "join" -> Ok("Join")
      [] OTHER -> Err(InvalidAssociationCategory(x))

parse_association(association) ==
    IF association.tag # "association"
    THEN Err(InvalidTagNameFound("association", association.tag))
    ELSE Literal(
        << Try(field_text(association, "category"), lib_category),
           field_text(association, "rid"),
           field_text(association, "uid"),
           field_text(association, "trainid"),
           Ok(ok(field_text(association, "rsid"))),
           field_date(association, "sdd"),
           field_text(association, "origin"),
           Ok(ok(field_text(association, "originCRS"))),
           Ok(ok(field_text(association, "originTiploc"))),
           field_text(association, "destination"),
           Ok(ok(field_text(association, "destCRS"))),
           Ok(ok(field_text(association, "destTiploc"))),
           field_bool(association, "cancelled", FALSE) >>,
        LAMBDA v :
            Ok([category |-> v[1], rid |-> v[2], uid |-> v[3], trainid |-> v[4],
                rsid |-> v[5], sdd |-> v[6],
                origin |-> Some([name |-> v[7], crs |-> v[8], tiploc |-> v[9]]),
                destination |-> Some([name |-> v[10], crs |-> v[11], tiploc |-> v[12]]),
                cancelled |-> v[13]]))

\* `let mut vec = Vec::new(); for node in associations.children()
\* { vec.push(parse(node)?) } Some(vec)`: results holds what parse gives for
\* each child; the loop stops at the first that is not Ok
parse_each(results) == Literal(results, LAMBDA pushed : Ok(Some(pushed)))

(***************************************************************************)
(* services.rs: ServiceLocation::parse.                                    *)
(***************************************************************************)
\* associations: match child!(location, "associations").ok() { .. }
ServiceLocation_associations(location) ==
    match_result(child(location, "associations"),
                 LAMBDA associations :
                     parse_each([i \in DOMAIN associations.kids |->
                                    Association_parse(associations.kids[i])]),
                 Ok(None))

\* adhoc_alerts: child!(location, "adhocAlerts").ok().and_then(|alert| todo!())
ServiceLocation_adhoc_alerts(location) ==
    IF child(location, "adhocAlerts").kind = "ok" THEN Panic("todo!()") ELSE Ok(None)

\* a length that keeps the parsed 0
ServiceLocation_length_with_zero(location) == ok(parse(location, "length", 16))

\* length: 0, a missing child and unparsable text all give None
ServiceLocation_length(location) ==
    match_result(parse(location, "length", 16),
                 LAMBDA x : IF x = 0 THEN None ELSE Some(x), None)

\* a false destination that is dropped when it has no code
ServiceLocation_false_destination_with_code(location) ==
    IF text(location, "falseDest").kind = "ok" /\ text(location, "fdTiploc").kind = "ok"
    THEN Some([name |-> location["falseDest"].text, crs |-> None,
               tiploc |-> Some(location["fdTiploc"].text)])
    ELSE None

\* false_destination
ServiceLocation_false_destination(location) ==
    match_result(text(location, "falseDest"),
                 LAMBDA n : Some([name |-> n, crs |-> None,
                                  tiploc |-> ok(text(location, "fdTiploc"))]),
                 None)

\* the match on arrivalType / departureType; the "Forecast" arm names the
\* variant the later match calls Estimated
ForecastType(typ) ==
    CASE typ = "Forecast" -> Ok(Some("Estimated"))
      [] typ = "Actual" -> Ok(Some("Actual"))
      [] typ = "NoLog" -> Ok(Some("NoLog"))
      [] typ = "NoReport" -> Ok(Some("NoReport"))
      [] typ = "Delayed" -> Ok(Some("Delayed"))
      [] OTHER -> Err(InvalidForecast(typ))

forecast_type(location, f) == match_result(text(location, f), ForecastType, Ok(None))

\* an arrival match whose Actual arm reads eta
ServiceTime_arrival_from_eta(location, typ) ==
    IF ~typ.some \/ typ.v \in {"NoLog", "NoReport"} THEN None
    ELSE ok(time(location, "eta"))

\* arrival: match arrival_forecast_type { .. }
ServiceTime_arrival(location, typ) ==
    IF ~typ.some THEN None
    ELSE CASE typ.v = "Estimated" -> ok(time(location, "eta"))
           [] typ.v = "Actual" -> ok(time(location, "ata"))
           [] typ.v = "NoLog" -> None
           [] typ.v = "NoReport" -> None
           [] typ.v = "Delayed" -> ok(time(location, "eta"))

\* time: { .. Ok(ServiceTime { .. }) }?
ServiceLocation_time(location) ==
    Literal(<< forecast_type(location, "arrivalType"),
               forecast_type(location, "departureType") >>,
            LAMBDA forecast_type_of :
                Ok([scheduled_arrival |-> ok(time(location, "sta")),
                    scheduled_departure |-> ok(time(location, "std")),
                    arrival |-> ServiceTime_arrival(location, forecast_type_of[1]),
                    departure |-> None,
                    arrival_forecast_type |-> forecast_type_of[1],
                    departure_forecast_type |-> forecast_type_of[2],
                    arrival_source |-> None,
                    arrival_source_instance |-> None,
                    departure_source |-> None,
                    departure_source_instance |-> None]))

ServiceLocation_parse(location) ==
    IF name(location) # "location" THEN Err(InvalidTagName("location"))
    ELSE Literal(
        << text(location, "locationName"),
           ServiceLocation_associations(location),
           ServiceLocation_adhoc_alerts(location),
           ServiceLocation_activities(location),
           bool(location, "detachFront", FALSE),
           bool(location, "isOperational", FALSE),
           bool(location, "isPass", FALSE),
           bool(location, "isCancelled", FALSE),
           bool(location, "platformIsHidden", FALSE),
           bool(location, "serviceIsSupressed", FALSE),
           ServiceLocation_time(location) >>,
        LAMBDA v :
            Ok([location |-> [name |-> v[1],
                              crs |-> ok(text(location, "crs")),
                              tiploc |-> ok(text(location, "tiploc"))],
                associations |-> v[2],
                adhoc_alerts |-> v[3],
                activities |-> v[4],
                length |-> ServiceLocation_length(location),
                detach_front |-> v[5],
                operational |-> v[6],
                pass |-> v[7],
                cancelled |-> v[8],
                false_destination |-> ServiceLocation_false_destination(location),
                platform |-> ok(parse(location, "platform", 8)),
                platform_hidden |-> v[9],
                suppressed |-> v[10],
                time |-> v[11],
                lateness |-> ok(text(location, "lateness"))]))

(***************************************************************************)
(* lib.rs: parse_service_location.                                         *)
(***************************************************************************)
lib_associations(location) ==
    IF ~location["associations"].present THEN Ok(None)
    ELSE parse_each([i \in DOMAIN location["associations"].kids |->
                        parse_association(location["associations"].kids[i])])

lib_adhoc_alerts(location) ==
    IF location["adhocAlerts"].present THEN Panic("todo!()") ELSE Ok(None)

lib_length(location) ==
    match_result(field(location, "length", 16),
                 LAMBDA x : IF x = 0 THEN None ELSE Some(x), None)

lib_false_destination(location) ==
    match_result(field_text(location, "falseDest"),
                 LAMBDA n : Some([name |-> n, crs |-> None,
                                  tiploc |-> ok(field_text(location, "fdTiploc"))]),
                 None)

\* the match on arrivalType / departureType of this iteration
lib_ForecastType(x) ==
    CASE x = "Actual" -> Ok("Actual")
      [] x = "Forecast" -> Ok("Estimated")
      [] OTHER -> Err(InvalidForecast(x))

\* Some(ServiceTime { .. }) of arrival_time / departure_time
lib_ServiceTime(location, scheduled, forecast, est, act, source) ==
    Ok(Some([scheduled |-> Some(scheduled),
             time |-> IF forecast = "Actual"
                      THEN ok(field_time(location, act))
                      ELSE ok(field_time(location, est)),
             forecast_type |-> Some(forecast),
             source |-> ok(field_text(location, source))]))

\* arrival_time / departure_time: sched, typ, est, act, source are the tags
\* (sta, arrivalType, eta, ata, arrivalSource) or their departure counterparts
lib_service_time(location, sched, typ, est, act, source) ==
    match_result(
        field_time(location, sched),
        LAMBDA s : Try(Try(field_text(location, typ), lib_ForecastType),
                       LAMBDA forecast :
                           lib_ServiceTime(location, s, forecast, est, act, source)),
        Ok(None))

parse_service_location(location) ==
    IF location.tag # "location" THEN Err(InvalidTagNameFound("location", location.tag))
    ELSE Literal(
        << field_text(location, "locationName"),
           lib_associations(location),
           lib_adhoc_alerts(location),
           lib_activities(location),
           field_bool(location, "detachFront", FALSE),
           field_bool(location, "isOperational", FALSE),
           field_bool(location, "isPass", FALSE),
           field_bool(location, "isCancelled", FALSE),
           field_bool(location, "platformIsHidden", FALSE),
           field_bool(location, "serviceIsSupressed", FALSE),
           lib_service_time(location, "sta", "arrivalType", "eta", "ata", "arrivalSource"),
           lib_service_time(location, "std", "departureType", "etd", "atd",
                            "departureSource") >>,
        LAMBDA v :
            Ok([location |-> [name |-> v[1],
                              crs |-> ok(field_text(location, "crs")),
                              tiploc |-> ok(field_text(location, "tiploc"))],
                associations |-> v[2],
                adhoc_alerts |-> v[3],
                activities |-> v[4],
                length |-> lib_length(location),
                detach_front |-> v[5],
                operational |-> v[6],
                pass |-> v[7],
                cancelled |-> v[8],
                false_destination |-> lib_false_destination(location),
                platform |-> ok(field(location, "platform", 8)),
                platform_hidden |-> v[9],
                suppressed |-> v[10],
                arrival_time |-> v[11],
                departure_time |-> v[12],
                lateness |-> ok(field_text(location, "lateness"))]))

(***************************************************************************)
(* services.rs: ServiceDetails::try_from, and lib.rs:                      *)
(* parse_service_details, as operators on the result element.              *)
(***************************************************************************)
\* the scalar fields of the ServiceDetails literal, in source order
ServiceDetails_fields(details) ==
    Literal(<< time(details, "generatedAt"),
               text(details, "rid"),
               text(details, "uid"),
               text(details, "trainid"),
               date(details, "sdd"),
               bool(details, "isPassengerService", TRUE),
               bool(details, "isCharter", FALSE),
               text(details, "category"),
               text(details, "operator"),
               text(details, "operatorCode"),
               bool(details, "isReverseFormation", FALSE) >>,
            LAMBDA v :
                Ok([generated_at |-> v[1], rid |-> v[2], uid |-> v[3],
                    rsid |-> ok(text(details, "rsid")),
                    trainid |-> v[4], sdd |-> v[5],
                    passenger_service |-> v[6], charter |-> v[7],
                    category |-> v[8], operator |-> v[9], operator_code |-> v[10],
                    cancel_reason |-> ok(text(details, "cancelReason")),
                    delay_reason |-> ok(text(details, "delayReason")),
                    reverse_formation |-> v[11]]))

lib_fields(details) ==
    Literal(<< field_time(details, "generatedAt"),
               field_text(details, "rid"),
               field_text(details, "uid"),
               field_text(details, "trainid"),
               field_date(details, "sdd"),
               field_bool(details, "isPassengerService", TRUE),
               field_bool(details, "isCharter", FALSE),
               field_text(details, "category"),
               field_text(details, "operator"),
               field_text(details, "operatorCode"),
               field_bool(details, "isReverseFormation", FALSE) >>,
            LAMBDA v :
                Ok([generated_at |-> v[1], rid |-> v[2], uid |-> v[3],
                    rsid |-> ok(field_text(details, "rsid")),
                    trainid |-> v[4], sdd |-> v[5],
                    passenger_service |-> v[6], charter |-> v[7],
                    category |-> v[8], operator |-> v[9], operator_code |-> v[10],
                    cancel_reason |-> ok(field_text(details, "cancelReason")),
                    delay_reason |-> ok(field_text(details, "delayReason")),
                    reverse_formation |-> v[11]]))

\* if typ != "train" { return Err(UnsupportedServiceType(typ)) }
train_only(typ) == IF typ # "train" THEN Err(UnsupportedServiceType(typ)) ELSE Ok(typ)

\* a serviceType step that reads the text and never compares it with "train"
serviceType_unchecked(details) == text(details, "serviceType")

\* let typ = text!(string, details, "serviceType")?; if typ != "train" { .. }
ServiceDetails_serviceType(details) == Try(text(details, "serviceType"), train_only)

lib_serviceType(details) == Try(field_text(details, "serviceType"), train_only)

(***************************************************************************)
(* Input documents.                                                        *)
(***************************************************************************)
MaxActLen == 5      \* longest activities text, in characters
MaxFaults == 2      \* children of the result element that differ from the baseline
MaxLocs == 2        \* longest list of children of the locations container
MaxCalls == 3       \* calls of the entry point by one caller

T(s) == [present |-> TRUE, empty |-> FALSE, text |-> s]
NoText == [present |-> TRUE, empty |-> TRUE, text |-> ""]
Absent == [present |-> FALSE, empty |-> TRUE, text |-> ""]
\* the activities child: its text is a sequence of characters
Act(s) == [present |-> TRUE, empty |-> s = <<>>, text |-> s]
NoAct == [present |-> FALSE, empty |-> TRUE, text |-> <<>>]
Kids(k) == [present |-> TRUE, kids |-> k]
NoKids == [present |-> FALSE, kids |-> <<>>]

RECURSIVE SeqsOfLen(_, _)
SeqsOfLen(S, n) ==
    IF n = 0 THEN {<<>>} ELSE {Append(q, x) : q \in SeqsOfLen(S, n - 1), x \in S}
SeqsUpTo(S, n) == UNION {SeqsOfLen(S, k) : k \in 0..n}

\* every text of up to MaxActLen characters over a code letter, a letter that
\* only occurs in two-letter codes, a letter of no code, the blank and a
\* two-byte character; and the texts the specification names
ActChars == {"T", "B", "Z", " ", NonAscii}
NamedTexts == {<<"T", "B", "T", "F">>, <<"T", "B", " ", " ", "T", "F">>,
               <<"T", "B", " ", " ", " ", " ", "T", "F">>}
ActTexts == SeqsUpTo(ActChars, MaxActLen) \cup NamedTexts

BaseAssociation ==
    [tag |-> "association", category |-> T("join"), rid |-> T("202205017100001"),
     uid |-> T("C10001"), trainid |-> T("1A01"), rsid |-> T("GR100100"),
     sdd |-> T("2022-05-01"), origin |-> T("Leeds"), originCRS |-> T("LDS"),
     originTiploc |-> T("LEEDS"), destination |-> T("York"), destCRS |-> T("YRK"),
     destTiploc |-> T("YORK"), cancelled |-> T("false")]

BaseLocation(n) ==
    [tag |-> "location", locationName |-> T(n), crs |-> T("LDS"), tiploc |-> T("LEEDS"),
     associations |-> NoKids, adhocAlerts |-> NoKids, activities |-> Act(<<"T", " ">>),
     length |-> T("4"), detachFront |-> Absent, isOperational |-> Absent,
     isPass |-> T("false"), isCancelled |-> Absent, falseDest |-> Absent,
     fdTiploc |-> Absent, platform |-> T("8"), platformIsHidden |-> Absent,
     serviceIsSupressed |-> Absent,
     sta |-> T("2022-05-01T10:00:00Z"), arrivalType |-> T("Forecast"),
     eta |-> T("2022-05-01T10:05:00Z"), ata |-> Absent, arrivalSource |-> Absent,
     std |-> T("2022-05-01T10:07:00Z"), departureType |-> T("Forecast"),
     etd |-> T("2022-05-01T10:10:00Z"), atd |-> Absent, departureSource |-> Absent,
     lateness |-> Absent]

\* a child of a container that is not the expected element: the whitespace
\* text node between two elements (its tag name is empty), or another element
TextNode == [tag |-> ""]
OtherElement == [tag |-> "callingPoint"]

BaseDetails ==
    [tag |-> "GetServiceDetailsResult",
     serviceType |-> T("train"), generatedAt |-> T("2022-05-01T10:00:00Z"),
     rid |-> T("202205017100000"), uid |-> T("C10000"), rsid |-> T("GR100000"),
     trainid |-> T("1A00"), sdd |-> T("2022-05-01"), isPassengerService |-> Absent,
     isCharter |-> Absent, category |-> T("XX"), operator |-> T("LNER"),
     operatorCode |-> T("GR"), cancelReason |-> Absent, delayReason |-> Absent,
     isReverseFormation |-> Absent,
     locations |-> Kids(<<>>)]

\* the values, other than the baseline's, that a child of the result element
\* takes in the inputs
TextFields == {"rid", "uid", "rsid", "trainid", "category", "operator", "operatorCode",
               "cancelReason", "delayReason"}
BoolFields == {"isPassengerService", "isCharter", "isReverseFormation"}
DetailFields ==
    <<"serviceType", "generatedAt", "rid", "uid", "rsid", "trainid", "sdd",
      "isPassengerService", "isCharter", "category", "operator", "operatorCode",
      "cancelReason", "delayReason", "isReverseFormation", "locations">>
DetailFaults(f) ==
    CASE f = "serviceType" -> {Absent, NoText, T("bus")}
      [] f = "generatedAt" -> {Absent, NoText, T("yesterday")}
      [] f = "sdd" -> {Absent, NoText, T("01/05/2022")}
      [] f \in BoolFields -> {NoText, T("true"), T("false"), T("maybe")}
      [] f \in TextFields -> {Absent, NoText}
      [] f = "locations" -> {NoKids}

\* the result elements that differ from d in at most n of the children
\* DetailFields[i], DetailFields[i + 1], ...
RECURSIVE FaultyFrom(_, _, _)
FaultyFrom(d, n, i) ==
    IF n = 0 THEN {d}
    ELSE {d} \cup UNION {UNION {FaultyFrom([d EXCEPT ![DetailFields[j]] = v], n - 1, j + 1) :
                                   v \in DetailFaults(DetailFields[j])} :
                            j \in i..Len(DetailFields)}
Faulty(n) == FaultyFrom(BaseDetails, n, 1)

\* the children of a location that vary in the inputs
ArrivalInputs ==
    {[BaseLocation("Leeds") EXCEPT !.sta = s, !.arrivalType = t, !.eta = e, !.ata = a] :
        s \in {Absent, NoText, T("yesterday"), T("2022-05-01T10:00:00Z")},
        t \in {Absent, NoText, T("Forecast"), T("Actual"), T("NoLog"), T("NoReport"),
               T("Delayed"), T("Late")},
        e \in {Absent, T("soon"), T("2022-05-01T10:05:00Z")},
        a \in {Absent, T("soon"), T("2022-05-01T10:07:00Z")}}
DepartureInputs ==
    {[BaseLocation("Leeds") EXCEPT !.std = s, !.departureType = t, !.etd = e, !.atd = a] :
        s \in {Absent, NoText, T("yesterday"), T("2022-05-01T10:07:00Z")},
        t \in {Absent, NoText, T("Forecast"), T("Actual"), T("NoLog"), T("NoReport"),
               T("Delayed"), T("Late")},
        e \in {Absent, T("soon"), T("2022-05-01T10:10:00Z")},
        a \in {Absent, T("soon"), T("2022-05-01T10:12:00Z")}}
ActivityInputs ==
    {[BaseLocation("Leeds") EXCEPT !.activities = a] :
        a \in {NoAct} \cup {Act(s) : s \in ActTexts}}
AssociationInputs ==
    {[BaseLocation("Leeds") EXCEPT !.associations = Kids(k)] :
        k \in {<<>>, <<BaseAssociation>>, <<TextNode>>, <<BaseAssociation, OtherElement>>,
               <<[BaseAssociation EXCEPT !.rid = Absent]>>,
               <<BaseAssociation, [BaseAssociation EXCEPT !.category = T("split")]>>}}
OtherInputs ==
    {[BaseLocation("Leeds") EXCEPT !.locationName = Absent],
     [BaseLocation("Leeds") EXCEPT !.locationName = NoText],
     [BaseLocation("Leeds") EXCEPT !.adhocAlerts = Kids(<<>>)],
     [BaseLocation("Leeds") EXCEPT !.isPass = T("maybe")],
     [BaseLocation("Leeds") EXCEPT !.isCancelled = T("true")],
     [BaseLocation("Leeds") EXCEPT !.length = T("0")],
     [BaseLocation("Leeds") EXCEPT !.falseDest = T("Twyford")]}
LengthInputs ==
    {[BaseLocation("Leeds") EXCEPT !.length = l] :
        l \in {Absent, NoText, T("0"), T("12"), T("abc"), T("65535"), T("65536")}}
BoolInputs ==
    {[BaseLocation("Leeds") EXCEPT !.isPass = b] :
        b \in {Absent, NoText, T("true"), T("false"), T("maybe")}}
OptionalInputs ==
    {[BaseLocation("Leeds") EXCEPT !.crs = c, !.tiploc = t, !.platform = p,
                                   !.falseDest = f, !.fdTiploc = ft, !.lateness = l] :
        c \in {Absent, T("LDS")}, t \in {Absent, T("LEEDS")}, p \in {Absent, T("8")},
        f \in {Absent, T("Twyford")}, ft \in {Absent, T("TWYFORD")},
        l \in {Absent, T("120")}}
\* one association, without one of its optional children
AssociationOptionals ==
    {"rsid", "originCRS", "originTiploc", "destCRS", "destTiploc", "cancelled"}
AssociationOptionalInputs ==
    {[BaseLocation("Leeds") EXCEPT
         !.associations = Kids(<<[BaseAssociation EXCEPT ![f] = Absent]>>)] :
        f \in AssociationOptionals}
\* one association, of every category and of an unknown one
AssociationCategoryInputs ==
    {[BaseLocation("Leeds") EXCEPT
         !.associations = Kids(<<[BaseAssociation EXCEPT !.category = T(c)]>>)] :
        c \in {"join", "divide", "next", "split"}}
\* the adhocAlerts container: missing, empty, with one and with two alerts
AdhocAlertInputs ==
    {[BaseLocation("Leeds") EXCEPT !.adhocAlerts = a] :
        a \in {NoKids, Kids(<<>>), Kids(<<"Lift out of order">>),
               Kids(<<"Lift out of order", "Buffet closed">>)}}
\* one association, without its origin or its destination child
AssociationEndInputs ==
    {[BaseLocation("Leeds") EXCEPT
         !.associations = Kids(<<[BaseAssociation EXCEPT !.origin = o, !.destination = d]>>)] :
        o \in {Absent, T("Leeds")}, d \in {Absent, T("York")}}
LocationInputs ==
    UNION {ArrivalInputs, DepartureInputs, ActivityInputs, AssociationInputs, OtherInputs,
           LengthInputs, BoolInputs, OptionalInputs, AssociationOptionalInputs,
           AssociationCategoryInputs, AdhocAlertInputs, AssociationEndInputs}

\* the lists of children of the locations container built from a small pool
LocationPool ==
    {BaseLocation("Leeds"), BaseLocation("York"),
     [BaseLocation("Selby") EXCEPT !.locationName = Absent],
     [BaseLocation("Hull") EXCEPT !.activities = Act(<<"Z", "Z">>)],
     TextNode}
LocationLists == SeqsUpTo(LocationPool, MaxLocs)

Document(details) == [wellFormed |-> TRUE, hasResult |-> TRUE, details |-> details]
\* a malformed document, a document without the result element, result
\* elements with faulty children, lists of locations, and single locations
\* followed by a valid one
NoResultDocuments ==
    {[wellFormed |-> FALSE, hasResult |-> FALSE, details |-> BaseDetails],
     [wellFormed |-> TRUE, hasResult |-> FALSE, details |-> BaseDetails]}
\* a document whose only element of that shape has another tag name
ForeignDocuments ==
    {Document([BaseDetails EXCEPT !.tag = "GetServiceDetailsFault"])}
FaultyDocuments == {Document(d) : d \in Faulty(MaxFaults)}
ListDocuments ==
    {Document([d EXCEPT !.locations = Kids(l)]) : d \in Faulty(1), l \in LocationLists}
LocationDocuments ==
    {Document([BaseDetails EXCEPT !.locations = Kids(<<l, BaseLocation("York")>>)]) :
        l \in LocationInputs}

(***************************************************************************)
(* The parse of one document, step by step.                                *)
(*   doc       the input document                                          *)
(*   callee    the entry point run on it: "try_from" (services.rs) or      *)
(*             "parse_service_details" (lib.rs)                            *)
(*   pc        the position in the entry point                             *)
(*   fields    the scalar fields of the ServiceDetails literal, once read  *)
(*   vec       the local Vec the locations are pushed onto                 *)
(*   examined  how many children of the locations container have been      *)
(*             handed to the location parser                               *)
(*   result    what the entry point returned: Ok, Err, or a panic          *)
(*   earlier   the calls the caller made before this one: the document     *)
(*             and what the entry point returned for it                    *)
(***************************************************************************)
VARIABLES doc, callee, pc, fields, vec, examined, result, earlier

vars == <<doc, callee, pc, fields, vec, examined, result, earlier>>

NotReturned == [kind |-> "none"]
NoFields == [read |-> FALSE]

Init ==
    /\ \/ doc \in NoResultDocuments
       \/ doc \in ForeignDocuments
       \/ doc \in FaultyDocuments
       \/ doc \in ListDocuments
       \/ doc \in LocationDocuments
    /\ callee \in {"try_from", "parse_service_details"}
    /\ earlier = <<>>
    /\ pc = "entry"
    /\ fields = NoFields
    /\ vec = <<>>
    /\ examined = 0
    /\ result = NotReturned

\* `return`, `?` on an Err, or a panic: the locals are dropped
Return(r) ==
    /\ result' = r
    /\ pc' = "done"
    /\ fields' = NoFields
    /\ vec' = <<>>

\* a literal built on a Vec that outlives the call: the locations of the
\* earlier calls stay in it
ServiceDetails_shared_vec(fs, locations) ==
    [f \in DOMAIN fs \cup {"locations"} |->
        IF f # "locations" THEN fs[f]
        ELSE IF earlier # <<>> /\ earlier[Len(earlier)].result.kind = "ok"
             THEN earlier[Len(earlier)].result.val.locations \o locations
             ELSE locations]

\* the finished literal: the scalar fields and the locations
ServiceDetails(fs, locations) ==
    [f \in DOMAIN fs \cup {"locations"} |-> IF f = "locations" THEN locations ELSE fs[f]]

\* a push that builds the list back to front
push_front(v, x) == <<x>> \o v

\* vec.push(..)
push(v, x) == Append(v, x)

\* the steps of the entry points once the value r of the step is known: an
\* Err (or a panic) returns, an Ok moves on
serviceType_checked(r) ==
    IF r.kind # "ok" THEN Return(r)
    ELSE pc' = "fields" /\ UNCHANGED <<fields, vec, result>>
fields_read(r) ==
    IF r.kind # "ok" THEN Return(r)
    ELSE pc' = "locations" /\ fields' = r.val /\ UNCHANGED <<vec, result>>
locations_found(r) ==
    IF r.kind # "ok" THEN Return(r)
    ELSE pc' = "location" /\ vec' = <<>> /\ UNCHANGED <<fields, result>>
\* a loop that skips the nodes that are not location elements
location_parsed_or_skipped(r) ==
    IF r = Err(InvalidTagName("location")) THEN UNCHANGED <<pc, fields, vec, result>>
    ELSE IF r.kind # "ok" THEN Return(r)
    ELSE vec' = push(vec, r.val) /\ UNCHANGED <<pc, fields, result>>
location_parsed(r) ==
    IF r.kind # "ok" THEN Return(r)
    ELSE vec' = push(vec, r.val) /\ UNCHANGED <<pc, fields, result>>

\* Node::has_tag_name(n) with a plain name: the local names are compared
has_tag_name(x, n) == x.tag = n

\* a search that takes the first element whatever its tag name
first_element(document, n) ==
    IF document.hasResult THEN Ok(document.details) ELSE Err(MissingField(n))

\* document.root().descendants().find(|x| x.has_tag_name(n))
\*     .ok_or(ParsingError::MissingField(n)); hasResult tells whether the
\* document holds the element `details` at all
find_descendant(document, n) ==
    IF document.hasResult /\ has_tag_name(document.details, n) THEN Ok(document.details)
    ELSE Err(MissingField(n))

\* services.rs 532-543: Document::parse, the search for the result element
\* by tag name, and the check of its tag name
try_from_locate ==
    /\ callee = "try_from" /\ pc = "entry"
    /\ UNCHANGED <<doc, callee, examined, earlier>>
    /\ IF ~doc.wellFormed THEN Return(Err(XMLParseError))
       ELSE IF find_descendant(doc, "GetServiceDetailsResult").kind # "ok"
            THEN Return(find_descendant(doc, "GetServiceDetailsResult"))
       ELSE IF name(find_descendant(doc, "GetServiceDetailsResult").val)
                  # "GetServiceDetailsResult"
            THEN Return(Err(InvalidTagName("GetServiceDetailsResult")))
       ELSE pc' = "serviceType" /\ UNCHANGED <<fields, vec, result>>

\* services.rs 545-549
try_from_serviceType ==
    /\ callee = "try_from" /\ pc = "serviceType"
    /\ UNCHANGED <<doc, callee, examined, earlier>>
    /\ serviceType_checked(ServiceDetails_serviceType(doc.details))

\* services.rs 551-565
try_from_fields ==
    /\ callee = "try_from" /\ pc = "fields"
    /\ UNCHANGED <<doc, callee, examined, earlier>>
    /\ fields_read(ServiceDetails_fields(doc.details))

\* services.rs 567-569: let mut vec = Vec::new(); child!(details, "locations")?
try_from_locations ==
    /\ callee = "try_from" /\ pc = "locations"
    /\ UNCHANGED <<doc, callee, examined, earlier>>
    /\ locations_found(child(doc.details, "locations"))

\* services.rs 569-571: one turn of the loop over the children
try_from_location ==
    /\ callee = "try_from" /\ pc = "location"
    /\ examined < Len(doc.details.locations.kids)
    /\ UNCHANGED <<doc, callee, earlier>>
    /\ examined' = examined + 1
    /\ location_parsed(ServiceLocation_parse(doc.details.locations.kids[examined + 1]))

\* services.rs 551, 573-575: the loop is over, Ok(ServiceDetails { .. })
try_from_return ==
    /\ callee = "try_from" /\ pc = "location"
    /\ examined = Len(doc.details.locations.kids)
    /\ UNCHANGED <<doc, callee, examined, earlier>>
    /\ Return(Ok(ServiceDetails(fields, vec)))

\* lib.rs 717-735 and 604-609: the document is parsed and the result element
\* looked up by the caller, parse_service_details checks its tag name
parse_service_details_locate ==
    /\ callee = "parse_service_details" /\ pc = "entry"
    /\ UNCHANGED <<doc, callee, examined, earlier>>
    /\ IF ~doc.wellFormed THEN Return(Err(XMLParseError))
       ELSE IF find_descendant(doc, "GetServiceDetailsResult").kind # "ok"
            THEN Return(find_descendant(doc, "GetServiceDetailsResult"))
       ELSE IF ~has_tag_name(find_descendant(doc, "GetServiceDetailsResult").val,
                             "GetServiceDetailsResult")
            THEN Return(Err(InvalidTagNameFound(
                               "GetServiceDetailsResult",
                               find_descendant(doc, "GetServiceDetailsResult").val.tag)))
       ELSE pc' = "serviceType" /\ UNCHANGED <<fields, vec, result>>

\* lib.rs 611-615
parse_service_details_serviceType ==
    /\ callee = "parse_service_details" /\ pc = "serviceType"
    /\ UNCHANGED <<doc, callee, examined, earlier>>
    /\ serviceType_checked(lib_serviceType(doc.details))

\* lib.rs 617-632
parse_service_details_fields ==
    /\ callee = "parse_service_details" /\ pc = "fields"
    /\ UNCHANGED <<doc, callee, examined, earlier>>
    /\ fields_read(lib_fields(doc.details))

\* lib.rs 634-639
parse_service_details_locations ==
    /\ callee = "parse_service_details" /\ pc = "locations"
    /\ UNCHANGED <<doc, callee, examined, earlier>>
    /\ locations_found(IF doc.details.locations.present THEN Ok(doc.details.locations)
                       ELSE Err(MissingField("locations")))

\* lib.rs 636-641
parse_service_details_location ==
    /\ callee = "parse_service_details" /\ pc = "location"
    /\ examined < Len(doc.details.locations.kids)
    /\ UNCHANGED <<doc, callee, earlier>>
    /\ examined' = examined + 1
    /\ location_parsed(parse_service_location(doc.details.locations.kids[examined + 1]))

\* lib.rs 617-618, 643-646
parse_service_details_return ==
    /\ callee = "parse_service_details" /\ pc = "location"
    /\ examined = Len(doc.details.locations.kids)
    /\ UNCHANGED <<doc, callee, examined, earlier>>
    /\ Return(Ok(ServiceDetails(fields, vec)))

Next ==
    \/ try_from_locate
    \/ try_from_serviceType
    \/ try_from_fields
    \/ try_from_locations
    \/ try_from_location
    \/ try_from_return
    \/ parse_service_details_locate
    \/ parse_service_details_serviceType
    \/ parse_service_details_fields
    \/ parse_service_details_locations
    \/ parse_service_details_location
    \/ parse_service_details_return

Spec == Init /\ [][Next]_vars

\* A caller that calls the entry point again once it has returned, with the
\* same text or with the text of another document (services.rs 531: try_from
\* takes the text by reference and has no other input).
call_again ==
    /\ pc = "done" /\ Len(earlier) + 1 < MaxCalls
    /\ earlier' = Append(earlier, [doc |-> doc, result |-> result])
    /\ doc' \in {doc, Document(BaseDetails)} \cup {earlier[i].doc : i \in DOMAIN earlier}
    /\ pc' = "entry" /\ result' = NotReturned /\ examined' = 0
    /\ UNCHANGED <<callee, fields, vec>>

\* the documents a caller parses more than once
AgainDocuments ==
    NoResultDocuments \cup ForeignDocuments \cup {Document(d) : d \in Faulty(1)}
        \cup {Document([BaseDetails EXCEPT !.locations = Kids(<<l, BaseLocation("York")>>)]) :
                 l \in UNION {DepartureInputs, AssociationInputs, OtherInputs,
                              AdhocAlertInputs}}
InitAgain ==
    /\ doc \in AgainDocuments
    /\ callee \in {"try_from", "parse_service_details"}
    /\ earlier = <<>>
    /\ pc = "entry"
    /\ fields = NoFields
    /\ vec = <<>>
    /\ examined = 0
    /\ result = NotReturned
NextAgain == Next \/ call_again
SpecAgain == InitAgain /\ [][NextAgain]_vars

TypeOK ==
    /\ pc \in {"entry", "serviceType", "fields", "locations", "location", "done"}
    /\ result.kind \in {"none", "ok", "err", "panic"}
    /\ (pc = "done") <=> (result.kind # "none")

(***************************************************************************)
(* Properties.  They are stated on the input document and on what the      *)
(* entry point returned, not through the parser's own operators.           *)
(***************************************************************************)
HasDetails ==
    doc.wellFormed /\ doc.hasResult /\ doc.details.tag = "GetServiceDetailsResult"
details == doc.details
HasLocations == HasDetails /\ details.locations.present
kids == details.locations.kids
Returned == pc = "done"

\* the i-th ServiceLocation built so far, or returned
Built(i) == IF Returned THEN result.val.locations[i] ELSE vec[i]
\* the i-th child has been examined and a ServiceLocation was built from it
IsBuilt(i) == IF Returned THEN result.kind = "ok" ELSE i <= Len(vec)

ValidTimestamp(c) == c.present /\ ~c.empty /\ c.text \in DOMAIN Rfc3339
ValidDate(c) == c.present /\ ~c.empty /\ c.text \in DOMAIN NaiveDates
ValidBool(c) == ~c.present \/ c.empty \/ c.text \in {"true", "false"}
HasText(c) == c.present /\ ~c.empty

MandatoryTexts == {"rid", "uid", "trainid", "category", "operator", "operatorCode"}
\* every scalar child of the result element is valid
ScalarsValid ==
    /\ details.serviceType = T("train")
    /\ ValidTimestamp(details.generatedAt)
    /\ ValidDate(details.sdd)
    /\ \A f \in MandatoryTexts : HasText(details[f])
    /\ \A f \in BoolFields : ValidBool(details[f])

\* a mandatory child is missing from the result element or from a location,
\* or a child of the locations container is not a location
MandatoryFieldFails ==
    /\ HasDetails
    /\ \/ \E f \in MandatoryTexts \cup {"serviceType", "generatedAt", "sdd", "locations"} :
            ~details[f].present
       \/ /\ details.locations.present
          /\ \E i \in 1..Len(kids) :
                \/ kids[i].tag # "location"
                \/ ~kids[i].locationName.present
                \/ ~kids[i].activities.present

\* C1: parse returns either one complete ServiceDetails tree or exactly one
\* error, and whenever a mandatory field fails anywhere in the document the
\* result is an error and no tree.
C1_FailFastWholeDocument ==
    Returned =>
        /\ result.kind \in {"ok", "err"}
        /\ result.kind = "ok" => Len(result.val.locations) = Len(kids)
        /\ MandatoryFieldFails => result.kind = "err"

\* C2: a serviceType child whose text is not exactly "train" makes the parse
\* fail with UnsupportedServiceType carrying that text, whatever the other
\* children contain.
C2_UnsupportedServiceType ==
    (Returned /\ HasDetails) =>
        /\ (HasText(details.serviceType) /\ details.serviceType.text # "train")
              => result = Err(UnsupportedServiceType(details.serviceType.text))
        /\ (callee = "try_from" /\ details.serviceType = NoText)
              => result = Err(UnsupportedServiceType(""))
C2_Witness ==
    /\ Returned /\ HasDetails
    /\ details.serviceType = T("bus") /\ ~details.rid.present
    /\ result = Err(UnsupportedServiceType("bus"))

\* C3: with serviceType "train" and a valid generatedAt but no rid child, the
\* parse returns MissingField("rid") whatever the locations container holds,
\* and no location has been examined.
C3_MissingRidBeforeLocations ==
    (Returned /\ HasDetails /\ details.serviceType = T("train")
        /\ ValidTimestamp(details.generatedAt) /\ ~details.rid.present)
    => (result = Err(MissingField("rid")) /\ examined = 0)
C3_Witness ==
    /\ Returned /\ HasLocations /\ ~details.rid.present
    /\ Len(kids) = 2 /\ kids[1].tag = "location"
    /\ result = Err(MissingField("rid")) /\ examined = 0

\* C4: a result element whose scalar children are all valid but which has no
\* locations child makes the parse fail with MissingField("locations").
C4_MissingLocations ==
    (Returned /\ HasDetails /\ ScalarsValid /\ ~details.locations.present)
    => result = Err(MissingField("locations"))
C4_Witness ==
    /\ Returned /\ HasDetails /\ ScalarsValid /\ ~details.locations.present
    /\ ~details.rsid.present
    /\ result = Err(MissingField("locations"))

\* C5: on success the locations list holds exactly one ServiceLocation per
\* direct child of the locations container, the i-th built from the i-th
\* child; while the list is being built it holds the children examined so far
\* in document order.
C5_LocationsInDocumentOrder ==
    /\ (Returned /\ result.kind = "ok") =>
          /\ Len(result.val.locations) = Len(kids)
          /\ \A i \in 1..Len(kids) :
                /\ kids[i].tag = "location"
                /\ result.val.locations[i].location.name = kids[i].locationName.text
    /\ pc = "location" =>
          /\ Len(vec) = examined
          /\ \A i \in 1..Len(vec) : vec[i].location.name = kids[i].locationName.text
C5_Witness ==
    /\ Returned /\ result.kind = "ok"
    /\ Len(result.val.locations) = 2
    /\ result.val.locations[1].location.name = "York"
    /\ result.val.locations[2].location.name = "Leeds"

(***************************************************************************)
(* The activities text as the claims describe it: consecutive chunks of    *)
(* two characters, each trimmed and looked up in the code table.           *)
(***************************************************************************)
NumChunks(s) == (Len(s) + 1) \div 2
Blank(c) == c = " "
\* the i-th chunk of two characters (the last may hold one), trimmed
TrimmedChunk(s, i) ==
    LET a == s[2 * i - 1]
        b == IF 2 * i <= Len(s) THEN s[2 * i] ELSE " " IN
    IF Blank(a) THEN (IF Blank(b) THEN "" ELSE b)
    ELSE IF Blank(b) THEN a ELSE a \o b
Codes == {ActivityTable[i][1] : i \in DOMAIN ActivityTable} \ {""}
Activity(code) ==
    CASE code = "T" -> "StopsToTakeUpAndSetDownPassengers"
      [] code = "TB" -> "TrainBegins"
      [] code = "TF" -> "TrainFinishes"
      [] code = "" -> "None"
\* the text is made of chunks that each hold one of the codes T, TB, TF
KnownCodesOnly(s) ==
    /\ s # <<>>
    /\ \A i \in 1..NumChunks(s) : TrimmedChunk(s, i) \in {"T", "TB", "TF"}
\* the same, blank chunks allowed
KnownOrBlankOnly(s) ==
    /\ s # <<>>
    /\ \A i \in 1..NumChunks(s) : TrimmedChunk(s, i) \in {"T", "TB", "TF", ""}
Decoded(s) == [i \in 1..NumChunks(s) |-> Activity(TrimmedChunk(s, i))]
UnknownChunks(s) == {i \in 1..NumChunks(s) : TrimmedChunk(s, i) \notin Codes \cup {""}}

\* a location that differs from the baseline in its activities child only
OnlyActivitiesVary(k) ==
    /\ k.tag = "location"
    /\ k.locationName.present
    /\ k.activities.present
    /\ k = [BaseLocation(k.locationName.text) EXCEPT !.activities = k.activities]

\* C6: the text is split into chunks of two characters, each chunk is
\* trimmed and mapped through the code table; a text made only of known
\* codes decodes, without error, to the activities of its chunks in order,
\* and "TBTF" gives [TrainBegins, TrainFinishes].
C6_KnownCodesDecodeInOrder ==
    \A i \in 1..examined :
        (examined = i /\ OnlyActivitiesVary(kids[i])
            /\ KnownCodesOnly(kids[i].activities.text))
        => /\ IsBuilt(i)
           /\ Built(i).activities = Some(Decoded(kids[i].activities.text))
           /\ kids[i].activities.text = <<"T", "B", "T", "F">>
                 => Built(i).activities = Some(<<"TrainBegins", "TrainFinishes">>)
C6_Witness ==
    /\ pc = "location" /\ examined = 1
    /\ kids[1].activities.text = <<"T", "B", "T", "F">>
    /\ vec[1].activities = Some(<<"TrainBegins", "TrainFinishes">>)

\* C7: a chunk that, after trimming, is not in the code table makes the
\* decoder fail with InvalidActivity carrying that chunk; the whole parse
\* fails with that error and no later location is examined.
C7_InvalidActivityAborts ==
    \A i \in 1..examined :
        (OnlyActivitiesVary(kids[i]) /\ UnknownChunks(kids[i].activities.text) # {})
        => /\ Returned
           /\ examined = i
           /\ result = Err(InvalidActivity(
                  TrimmedChunk(kids[i].activities.text,
                               Min(UnknownChunks(kids[i].activities.text)))))

\* C8: an activities child that is present with empty text gives a
\* ServiceLocation whose activities field is absent, and no error.
C8_EmptyActivitiesAbsent ==
    \A i \in 1..examined :
        (examined = i /\ OnlyActivitiesVary(kids[i]) /\ kids[i].activities.empty)
        => (IsBuilt(i) /\ Built(i).activities = None)

\* a run of adjacent "no activity" markers collapsed to one marker
RECURSIVE CollapseAdjacent(_)
CollapseAdjacent(v) ==
    IF Len(v) <= 1 THEN v
    ELSE LET front == CollapseAdjacent(SubSeq(v, 1, Len(v) - 1)) IN
         IF v[Len(v)] = "None" /\ v[Len(v) - 1] = "None" THEN front
         ELSE Append(front, v[Len(v)])

\* C9: only immediately adjacent "no activity" markers are collapsed to one;
\* a marker between two real activities stays and the other activities keep
\* their order.
C9_OnlyAdjacentMarkersCollapse ==
    \A i \in 1..examined :
        (examined = i /\ OnlyActivitiesVary(kids[i])
            /\ KnownOrBlankOnly(kids[i].activities.text))
        => /\ IsBuilt(i)
           /\ Built(i).activities = Some(CollapseAdjacent(Decoded(kids[i].activities.text)))

\* the arrival part of a ServiceLocation is entirely absent
ArrivalAbsent(l) ==
    IF callee = "try_from"
    THEN /\ l.time.scheduled_arrival = None
         /\ l.time.arrival = None
         /\ l.time.arrival_forecast_type = None
    ELSE l.arrival_time = None
DepartureAbsent(l) ==
    IF callee = "try_from"
    THEN /\ l.time.scheduled_departure = None
         /\ l.time.departure = None
         /\ l.time.departure_forecast_type = None
    ELSE l.departure_time = None

\* C10: a location without an sta child parses, and its arrival part
\* (scheduled arrival, resolved arrival, arrival forecast type) is absent
\* whatever arrivalType, eta and ata contain; the same for departure and std.
C10_NoScheduleNoRecord ==
    \A i \in 1..examined :
        /\ (examined = i /\ kids[i] \in ArrivalInputs /\ ~kids[i].sta.present)
              => (IsBuilt(i) /\ ArrivalAbsent(Built(i)))
        /\ (examined = i /\ kids[i] \in DepartureInputs /\ ~kids[i].std.present)
              => (IsBuilt(i) /\ DepartureAbsent(Built(i)))

\* the instant a valid timestamp child denotes
Instant(c) == Rfc3339[c.text]
\* the resolved arrival / departure instant of a ServiceLocation
ResolvedArrival(l) ==
    IF callee = "try_from" THEN l.time.arrival
    ELSE IF l.arrival_time = None THEN None ELSE l.arrival_time.v.time
ResolvedDeparture(l) ==
    IF callee = "try_from" THEN l.time.departure
    ELSE IF l.departure_time = None THEN None ELSE l.departure_time.v.time
ScheduledArrival(l) ==
    IF callee = "try_from" THEN l.time.scheduled_arrival
    ELSE IF l.arrival_time = None THEN None ELSE l.arrival_time.v.scheduled
\* what reading a timestamp child gives: its instant, or nothing when the
\* child is missing or is no timestamp
ReadFrom(c) == IF ValidTimestamp(c) THEN Some(Instant(c)) ELSE None

\* C11: with a valid sta, arrivalType "Forecast" makes the resolved arrival
\* the eta instant (whether or not ata is there) and arrivalType "Actual"
\* makes it the ata instant, absent when ata is absent even if eta is there;
\* the scheduled arrival is present in both cases.
C11_ArrivalResolvedByType ==
    \A i \in 1..examined :
        (examined = i /\ kids[i] \in ArrivalInputs /\ ValidTimestamp(kids[i].sta)
            /\ kids[i].arrivalType \in {T("Forecast"), T("Actual")})
        => /\ IsBuilt(i)
           /\ ScheduledArrival(Built(i)) = Some(Instant(kids[i].sta))
           /\ kids[i].arrivalType = T("Forecast")
                 => ResolvedArrival(Built(i)) = ReadFrom(kids[i].eta)
           /\ kids[i].arrivalType = T("Actual")
                 => ResolvedArrival(Built(i)) = ReadFrom(kids[i].ata)
C11_Witness ==
    /\ pc = "location" /\ examined = 1 /\ Len(vec) = 1
    /\ kids[1].arrivalType = T("Actual") /\ ValidTimestamp(kids[1].sta)
    /\ ValidTimestamp(kids[1].eta) /\ ~kids[1].ata.present
    /\ ResolvedArrival(vec[1]) = None
    /\ ScheduledArrival(vec[1]) = Some(Instant(kids[1].sta))

\* C12: the resolver is applied to departure as to arrival: with a valid std,
\* departureType "Forecast" makes the resolved departure the etd instant and
\* departureType "Actual" makes it the atd instant.
C12_DepartureResolvedByType ==
    \A i \in 1..examined :
        (examined = i /\ kids[i] \in DepartureInputs /\ ValidTimestamp(kids[i].std)
            /\ kids[i].departureType \in {T("Forecast"), T("Actual")})
        => /\ IsBuilt(i)
           /\ kids[i].departureType = T("Forecast")
                 => ResolvedDeparture(Built(i)) = ReadFrom(kids[i].etd)
           /\ kids[i].departureType = T("Actual")
                 => ResolvedDeparture(Built(i)) = ReadFrom(kids[i].atd)

\* C13: for forecast type NoLog or NoReport the resolved instant is absent
\* even when the estimated and the actual time are there; for Delayed it is
\* read from the estimated time (eta for arrival, etd for departure).  The
\* five forecast types are those of services.rs.
C13_NoLogNoReportDelayed ==
    \A i \in 1..examined :
        /\ (callee = "try_from" /\ examined = i /\ kids[i] \in ArrivalInputs
               /\ ValidTimestamp(kids[i].sta))
           => /\ kids[i].arrivalType \in {T("NoLog"), T("NoReport")}
                    => (IsBuilt(i) /\ ResolvedArrival(Built(i)) = None)
              /\ kids[i].arrivalType = T("Delayed")
                    => (IsBuilt(i) /\ ResolvedArrival(Built(i)) = ReadFrom(kids[i].eta))
        /\ (callee = "try_from" /\ examined = i /\ kids[i] \in DepartureInputs
               /\ ValidTimestamp(kids[i].std))
           => /\ kids[i].departureType \in {T("NoLog"), T("NoReport")}
                    => (IsBuilt(i) /\ ResolvedDeparture(Built(i)) = None)
              /\ kids[i].departureType = T("Delayed")
                    => (IsBuilt(i) /\ ResolvedDeparture(Built(i)) = ReadFrom(kids[i].etd))

\* the forecast type of the arrival / departure part of a ServiceLocation
ArrivalForecastType(l) ==
    IF callee = "try_from" THEN l.time.arrival_forecast_type
    ELSE IF l.arrival_time = None THEN None ELSE l.arrival_time.v.forecast_type
DepartureForecastType(l) ==
    IF callee = "try_from" THEN l.time.departure_forecast_type
    ELSE IF l.departure_time = None THEN None ELSE l.departure_time.v.forecast_type
ForecastNames == {"Forecast", "Actual", "NoLog", "NoReport", "Delayed"}

\* C14: the forecast-type tag is optional: a location without arrivalType
\* (departureType) parses with that forecast type absent; a tag whose text is
\* none of Forecast, Actual, NoLog, NoReport, Delayed makes the whole parse
\* fail with InvalidForecast carrying that text.
C14_ForecastTypeOptionalAndClosed ==
    \A i \in 1..examined :
        /\ (examined = i /\ kids[i] \in ArrivalInputs)
           => /\ ~kids[i].arrivalType.present
                    => (IsBuilt(i) /\ ArrivalForecastType(Built(i)) = None)
              /\ (HasText(kids[i].arrivalType) /\ kids[i].arrivalType.text \notin ForecastNames)
                    => (Returned /\ result = Err(InvalidForecast(kids[i].arrivalType.text)))
        /\ (examined = i /\ kids[i] \in DepartureInputs)
           => /\ ~kids[i].departureType.present
                    => (IsBuilt(i) /\ DepartureForecastType(Built(i)) = None)
              /\ (HasText(kids[i].departureType)
                     /\ kids[i].departureType.text \notin ForecastNames)
                    => (Returned /\ result = Err(InvalidForecast(kids[i].departureType.text)))

\* the length a length child stands for: a non-zero unsigned 16-bit number
ExpectedLength(c) ==
    IF HasText(c) /\ c.text \in DOMAIN Decimal
          /\ Decimal[c.text] > 0 /\ Decimal[c.text] <= 65535
    THEN Some(Decimal[c.text]) ELSE None

\* C15: the length is absent when the length child is "0", missing or no
\* unsigned 16-bit number, without any error; otherwise it is the parsed
\* non-zero value.
C15_LengthZeroIsAbsent ==
    \A i \in 1..examined :
        (examined = i /\ kids[i] \in LengthInputs)
        => (IsBuilt(i) /\ Built(i).length = ExpectedLength(kids[i].length))
C15_Witness ==
    /\ pc = "location" /\ examined = 1 /\ Len(vec) = 1
    /\ kids[1].length = T("0") /\ vec[1].length = None

\* C16: an optional boolean without its child takes the default without
\* error; a present child must hold exactly "true" or "false"; every other
\* text of a present child, the empty text included, is an InvalidField error
\* and never the default.
C16_OptionalBoolStrict ==
    \A i \in 1..examined :
        (examined = i /\ kids[i] \in BoolInputs)
        => /\ ~kids[i].isPass.present => (IsBuilt(i) /\ Built(i).pass = FALSE)
           /\ (HasText(kids[i].isPass) /\ kids[i].isPass.text \in {"true", "false"})
              => (IsBuilt(i) /\ Built(i).pass = (kids[i].isPass.text = "true"))
           /\ (kids[i].isPass.present /\ kids[i].isPass.text \notin {"true", "false"})
              => (/\ Returned /\ result.kind = "err"
                  /\ result.err.tag = "InvalidField" /\ result.err.field = "isPass")

\* the optional text children of the result element and the fields they fill
OptionalTexts ==
    [rsid |-> "rsid", cancelReason |-> "cancel_reason", delayReason |-> "delay_reason"]
\* every scalar child of the result element other than f is valid
OthersValid(f) ==
    /\ details.serviceType = T("train")
    /\ ValidTimestamp(details.generatedAt)
    /\ ValidDate(details.sdd)
    /\ \A g \in MandatoryTexts \ {f} : HasText(details[g])
    /\ \A g \in BoolFields : ValidBool(details[g])
\* the value of an optional text field whose child is missing
AbsentIsNone(c, v) == ~c.present => v = None

\* C17: a missing rsid, cancelReason or delayReason of the service, or crs,
\* tiploc, platform, falseDest, fdTiploc or lateness of a location, never
\* raises an error and leaves the field absent; isPassengerService defaults
\* to true and isCharter to false; a missing rid, uid, trainid, category,
\* operator or operatorCode fails with MissingField naming that child.
C17_OptionalAbsenceNeverErrors ==
    /\ (Returned /\ HasLocations /\ ScalarsValid /\ kids = <<>>)
       => /\ result.kind = "ok"
          /\ \A f \in DOMAIN OptionalTexts :
                AbsentIsNone(details[f], result.val[OptionalTexts[f]])
          /\ ~details.isPassengerService.present => result.val.passenger_service = TRUE
          /\ ~details.isCharter.present => result.val.charter = FALSE
    /\ \A f \in MandatoryTexts :
          (Returned /\ HasDetails /\ ~details[f].present /\ OthersValid(f))
          => result = Err(MissingField(f))
    /\ \A i \in 1..examined :
          (examined = i /\ kids[i] \in OptionalInputs)
          => /\ IsBuilt(i)
             /\ AbsentIsNone(kids[i].crs, Built(i).location.crs)
             /\ AbsentIsNone(kids[i].tiploc, Built(i).location.tiploc)
             /\ AbsentIsNone(kids[i].platform, Built(i).platform)
             /\ AbsentIsNone(kids[i].falseDest, Built(i).false_destination)
             /\ AbsentIsNone(kids[i].lateness, Built(i).lateness)
             /\ (kids[i].falseDest.present /\ ~kids[i].fdTiploc.present)
                => Built(i).false_destination.v.tiploc = None
C17_Witness ==
    /\ Returned /\ result.kind = "ok" /\ HasLocations /\ Len(kids) = 2
    /\ kids[1] \in OptionalInputs
    /\ ~kids[1].crs.present /\ ~kids[1].tiploc.present /\ ~kids[1].platform.present
    /\ kids[1].falseDest.present /\ ~kids[1].fdTiploc.present /\ ~kids[1].lateness.present
    /\ ~details.isPassengerService.present /\ ~details.cancelReason.present
    /\ result.val.passenger_service = TRUE /\ result.val.cancel_reason = None
    /\ result.val.locations[1].location.crs = None
    /\ result.val.locations[1].platform = None
C17_WitnessMissingField ==
    /\ Returned /\ HasDetails /\ ~details.operatorCode.present /\ OthersValid("operatorCode")
    /\ result = Err(MissingField("operatorCode"))

\* the Association built from the only association of the i-th location
OnlyAssociation(i) == Built(i).associations.v[1]

\* C18: an association that lacks any of rsid, originCRS, originTiploc,
\* destCRS, destTiploc or cancelled parses successfully, with the missing
\* optional field absent and cancelled false.
C18_AssociationOptionalChildren ==
    \A i \in 1..examined :
        (examined = i /\ kids[i] \in AssociationOptionalInputs)
        => /\ IsBuilt(i)
           /\ Built(i).associations.some /\ Len(Built(i).associations.v) = 1
           /\ AbsentIsNone(kids[i].associations.kids[1].rsid, OnlyAssociation(i).rsid)
           /\ AbsentIsNone(kids[i].associations.kids[1].originCRS,
                           OnlyAssociation(i).origin.v.crs)
           /\ AbsentIsNone(kids[i].associations.kids[1].originTiploc,
                           OnlyAssociation(i).origin.v.tiploc)
           /\ AbsentIsNone(kids[i].associations.kids[1].destCRS,
                           OnlyAssociation(i).destination.v.crs)
           /\ AbsentIsNone(kids[i].associations.kids[1].destTiploc,
                           OnlyAssociation(i).destination.v.tiploc)
           /\ ~kids[i].associations.kids[1].cancelled.present
              => OnlyAssociation(i).cancelled = FALSE

\* the closed set of category texts and the variants they stand for
CategoryNames == [join |-> "Join", divide |-> "Divide", next |-> "Next"]

\* C19: join, divide and next yield the categories Join, Divide and Next;
\* any other category text fails with InvalidAssociationCategory(text) and
\* aborts the whole parse.
C19_AssociationCategoryClosed ==
    \A i \in 1..examined :
        (examined = i /\ kids[i] \in AssociationCategoryInputs)
        => IF kids[i].associations.kids[1].category.text \in DOMAIN CategoryNames
           THEN /\ IsBuilt(i)
                /\ Built(i).associations.some /\ Len(Built(i).associations.v) = 1
                /\ OnlyAssociation(i).category
                      = CategoryNames[kids[i].associations.kids[1].category.text]
           ELSE /\ Returned
                /\ result = Err(InvalidAssociationCategory(
                                   kids[i].associations.kids[1].category.text))

\* C20: a location with an adhocAlerts child parses successfully and carries
\* the alert texts in document order; without the child the field is absent.
C20_AdhocAlertsParsed ==
    \A i \in 1..examined :
        (examined = i /\ kids[i] \in AdhocAlertInputs)
        => /\ IsBuilt(i)
           /\ Built(i).adhoc_alerts = IF kids[i].adhocAlerts.present
                                      THEN Some(kids[i].adhocAlerts.kids) ELSE None

\* the calls made so far that have returned, the current one included
Calls == IF Returned THEN Append(earlier, [doc |-> doc, result |-> result]) ELSE earlier

Associations(i) == kids[i].associations.kids
FirstForeign(i) == Min({j \in DOMAIN Associations(i) : Associations(i)[j].tag # "association"})

\* C22: a child of the locations container that is not tagged location, or a
\* child of an associations container that is not tagged association, fails
\* the parse with InvalidTagName carrying the expected tag name and the tag
\* name found.
C22_InvalidTagNameCarriesFound ==
    \A i \in 1..examined :
        /\ (examined = i /\ kids[i].tag # "location")
           => (Returned /\ result = Err(InvalidTagNameFound("location", kids[i].tag)))
        /\ (/\ examined = i /\ kids[i] \in AssociationInputs
            /\ \E j \in DOMAIN Associations(i) : Associations(i)[j].tag # "association"
            /\ \A j \in DOMAIN Associations(i) :
                  Associations(i)[j].tag = "association" => Associations(i)[j] = BaseAssociation)
           => /\ Returned
              /\ result = Err(InvalidTagNameFound("association",
                                                  Associations(i)[FirstForeign(i)].tag))

\* a Location with a name and neither code
NameOnly(c) == [name |-> c.text, crs |-> None, tiploc |-> None]

MandatoryFields ==
    [rid |-> "rid", uid |-> "uid", trainid |-> "trainid", category |-> "category",
     operator |-> "operator", operatorCode |-> "operator_code"]

\* C24: text access never fails on an existing node: a present child without
\* text is read as the empty text, so reading a required text can fail only
\* with MissingField, when no child has that tag.
C24_TextOfExistingNodeNeverFails ==
    /\ (Returned /\ result.kind = "err" /\ result.err.tag = "InvalidField")
       => result.err.expected # "text"
    /\ \A f \in DOMAIN MandatoryFields :
          (/\ Returned /\ HasLocations /\ kids = <<>>
           /\ details[f] = NoText /\ OthersValid(f))
          => (result.kind = "ok" /\ result.val[MandatoryFields[f]] = "")

\* the ServiceLocations built so far, or returned
BuiltLocations ==
    IF ~Returned THEN vec ELSE IF result.kind = "ok" THEN result.val.locations ELSE <<>>
RealActivity(a) == a # "None"
\* the list without the markers that come after its first element
DropLaterMarkers(v) == <<v[1]>> \o SelectSeq(Tail(v), RealActivity)

\* C25: in every activity list the decoder returns, the "no activity" marker
\* occurs at index 0 only: every marker that comes after another element is
\* removed, whether or not the element before it is a marker.
C25_MarkerOnlyFirst ==
    /\ \A i \in DOMAIN BuiltLocations :
          BuiltLocations[i].activities.some
          => \A j \in 2..Len(BuiltLocations[i].activities.v) :
                RealActivity(BuiltLocations[i].activities.v[j])
    /\ \A i \in 1..examined :
          (examined = i /\ OnlyActivitiesVary(kids[i])
              /\ KnownOrBlankOnly(kids[i].activities.text))
          => /\ IsBuilt(i)
             /\ Built(i).activities = Some(DropLaterMarkers(Decoded(kids[i].activities.text)))
C25_Witness ==
    /\ pc = "location" /\ examined = 1 /\ Len(vec) = 1
    /\ kids[1].activities.text = <<"T", "B", " ", " ", "T", "F">>
    /\ vec[1].activities = Some(<<"TrainBegins", "TrainFinishes">>)

\* C26: the activities child is mandatory for every location: without it the
\* whole parse fails with MissingField("activities"); an absent activities
\* field in a successful result always comes from a present child with empty
\* text.
C26_ActivitiesMandatory ==
    /\ \A i \in 1..examined :
          (examined = i /\ kids[i] \in ActivityInputs /\ ~kids[i].activities.present)
          => (Returned /\ result = Err(MissingField("activities")))
    /\ \A i \in DOMAIN BuiltLocations :
          BuiltLocations[i].activities = None
          => (kids[i].activities.present /\ kids[i].activities.empty)
C26_Witness ==
    /\ Returned /\ examined = 1 /\ HasLocations
    /\ kids[1] \in ActivityInputs /\ ~kids[1].activities.present
    /\ result = Err(MissingField("activities"))
C26_WitnessEmptyText ==
    /\ Returned /\ result.kind = "ok" /\ Len(result.val.locations) = 2
    /\ kids[1].activities.present /\ kids[1].activities.empty
    /\ result.val.locations[1].activities = None

\* C27: every successfully parsed Association has both origin and
\* destination: parsing fails with MissingField when the origin or the
\* destination child is missing, and no Association is built without them.
C27_AssociationEndsPresent ==
    /\ \A i \in 1..examined :
          (examined = i /\ kids[i] \in AssociationEndInputs)
          => IF ~Associations(i)[1].origin.present
             THEN Returned /\ result = Err(MissingField("origin"))
             ELSE IF ~Associations(i)[1].destination.present
             THEN Returned /\ result = Err(MissingField("destination"))
             ELSE IsBuilt(i) /\ Built(i).associations.some
    /\ \A i \in DOMAIN BuiltLocations :
          BuiltLocations[i].associations.some
          => \A j \in DOMAIN BuiltLocations[i].associations.v :
                /\ BuiltLocations[i].associations.v[j].origin.some
                /\ BuiltLocations[i].associations.v[j].destination.some
C27_Witness ==
    /\ Returned /\ examined = 1 /\ HasLocations /\ kids[1] \in AssociationEndInputs
    /\ Associations(1)[1].origin.present /\ ~Associations(1)[1].destination.present
    /\ result = Err(MissingField("destination"))

\* C28: every direct child node of the locations container is handed to the
\* location parser, text nodes between the elements included; a node that is
\* not a location element fails the whole parse with InvalidTagName
\* expecting "location" and is never skipped.
C28_ForeignNodesNotSkipped ==
    /\ \A i \in 1..examined :
          (examined = i /\ kids[i].tag # "location")
          => /\ Returned /\ result.kind = "err"
             /\ result.err.tag = "InvalidTagName" /\ result.err.expected = "location"
    /\ (Returned /\ result.kind = "ok")
       => /\ Len(result.val.locations) = Len(kids)
          /\ \A i \in DOMAIN kids : kids[i].tag = "location"
C28_Witness ==
    /\ Returned /\ HasLocations /\ Len(kids) = 2 /\ examined = 2
    /\ kids[1].tag = "location" /\ kids[2] = TextNode
    /\ result.kind = "err" /\ result.err.tag = "InvalidTagName"
    /\ result.err.expected = "location"

\* C29: the activity decoder is total: for every activities text, also one
\* whose two-byte chunks cut through a multi-byte character, it returns an
\* activity list or an InvalidActivity error and never aborts abnormally.
C29_DecoderTotal ==
    \A i \in 1..examined :
        (examined = i /\ kids[i] \in ActivityInputs
            /\ kids[i].activities.present /\ ~kids[i].activities.empty)
        => \/ IsBuilt(i) /\ Built(i).activities.some
           \/ Returned /\ result.kind = "err" /\ result.err.tag = "InvalidActivity"

\* C30: try_from never returns InvalidTagName("GetServiceDetailsResult"): the
\* result element is found by that very tag name, so a document without it
\* always yields MissingField("GetServiceDetailsResult") and the tag-name
\* check that follows cannot fail.
C30_ResultTagCheckUnreachable ==
    Returned
    => /\ result # Err(InvalidTagName("GetServiceDetailsResult"))
       /\ (result.kind = "err" /\ result.err.tag = "InvalidTagName")
          => result.err.expected # "GetServiceDetailsResult"
       /\ (doc.wellFormed /\ ~HasDetails)
          => result = Err(MissingField("GetServiceDetailsResult"))
C30_Witness ==
    /\ callee = "try_from" /\ Returned
    /\ doc \in ForeignDocuments /\ doc.details.tag # "GetServiceDetailsResult"
    /\ result = Err(MissingField("GetServiceDetailsResult"))

====
